---- MODULE Spec2Model ----
(***************************************************************************)
(* Model of the markdown/layout reconciliation of MinerPick:               *)
(*   backend/parsers/fullParse_mineru.py  (MinerUParser)                   *)
(*   backend/parsers/base.py              (BaseParser helpers)             *)
(*                                                                         *)
(* Texts are sequences of one-character strings.  Scores are exact         *)
(* rationals <<numerator, denominator>> (denominator > 0), so that the     *)
(* thresholds of the source (0.6, 0.95, 0.2, 0.7, ...) are compared        *)
(* exactly.  An absent dictionary key is an absent record field.           *)
(***************************************************************************)
EXTENDS Integers, Sequences, FiniteSets, TLC

VARIABLES
    blocks,                 \* result of _split_markdown_blocks(md_text)
    candidates,             \* text candidates, sorted by _sort_key
    content_tables,         \* the caller's table mapping (mutated in place)
    raw_tables,             \* table elements of raw_content_list
    table_defs,             \* table definitions, sorted by _sort_key
    md_index,               \* number of blocks already processed
    cand_ptr,
    table_ptr,
    used_table_indices,
    last_matched_page_idx,
    out,                    \* the content list being built
    new_blocks,             \* blocks of the rebuilt markdown
    run,                    \* 1: first call, 2: second call on the same objects
    first_out,              \* content list returned by the first call
    first_tables,           \* table mapping as left by the first call
    step,                   \* what the last loop iteration saw and did
    simA, simB, simScore,   \* inputs and result of one similarity call
    parse_pc,               \* position of MinerUParser.parse in one request
    attempts,               \* calls of client.post made by the request
    origin,                 \* what happened to the request (history)
    raised,                 \* the HTTPException parse ended in, if any
    md_content,             \* markdown received from the layout extractor
    files,                  \* files written into task_result_dir
    requests,               \* requests finished so far
    seen,                   \* origin and error of the failed requests so far
    json_path, json_arg, json_file   \* one call of write_json_file

parse_vars == <<parse_pc, attempts, origin, raised, md_content, files, requests, seen>>

json_vars == <<json_path, json_arg, json_file>>

vars == <<blocks, candidates, content_tables, raw_tables, table_defs, md_index,
          cand_ptr, table_ptr, used_table_indices, last_matched_page_idx, out,
          new_blocks, run, first_out, first_tables, step, simA, simB, simScore,
          parse_vars, json_vars>>

-----------------------------------------------------------------------------
(* Characters and texts *)

Lower == {"a", "b", "c", "d", "e", "h", "i", "l", "n", "o", "r", "t", "w"}
Upper == {"A", "H", "I"}
Digit == {"1"}
Space == {" "}
Punct == {"."}

ToLower(ch) ==
    IF ch = "A" THEN "a" ELSE IF ch = "H" THEN "h" ELSE IF ch = "I" THEN "i" ELSE ch

Range(s) == {s[i] : i \in 1..Len(s)}

Min(x, y) == IF x <= y THEN x ELSE y
Max(x, y) == IF x >= y THEN x ELSE y

\* text.strip(): leading and trailing whitespace removed
RECURSIVE LStrip(_)
LStrip(s) == IF s # <<>> /\ Head(s) \in Space THEN LStrip(Tail(s)) ELSE s

RECURSIVE RStrip(_)
RStrip(s) ==
    IF s # <<>> /\ s[Len(s)] \in Space THEN RStrip(SubSeq(s, 1, Len(s) - 1)) ELSE s

Strip(s) == RStrip(LStrip(s))

\* x in y, for Python strings
IsSubstr(x, y) ==
    \E i \in 0..(Len(y) - Len(x)) : SubSeq(y, i + 1, i + Len(x)) = x

\* normalize(text): whitespace and punctuation stripped, lower-cased,
\* alphanumerics kept
RECURSIVE normalize_match_text(_)
normalize_match_text(s) ==
    IF s = <<>> THEN <<>>
    ELSE LET ch == Head(s)
             rest == normalize_match_text(Tail(s))
         IN  IF ch \in Lower \cup Upper \cup Digit
             THEN <<ToLower(ch)>> \o rest
             ELSE rest

-----------------------------------------------------------------------------
(* Exact rational scores *)

RLt(x, y) == x[1] * y[2] < y[1] * x[2]
RLe(x, y) == x[1] * y[2] <= y[1] * x[2]
RMul(x, y) == <<x[1] * y[1], x[2] * y[2]>>
\* Python's max(x, y): the first of two equal arguments
RMax(x, y) == IF RLt(x, y) THEN y ELSE x

Zero == <<0, 1>>
PerfectMatch == <<12, 10>>

\* get_chunks(s): the set of 2-character windows
get_chunks(s) == {SubSeq(s, i, i + 1) : i \in 1..(Len(s) - 1)}

\* Length similarity: min(len) / max(len) (line 143)
len_ratio_asym(t1, t2) == <<Len(t1), Len(t2)>>
len_ratio(t1, t2) == <<Min(Len(t1), Len(t2)), Max(Len(t1), Len(t2))>>

\* Character-level Jaccard (lines 132-137)
jaccard(t1, t2) ==
    <<Cardinality(Range(t1) \cap Range(t2)), Cardinality(Range(t1) \cup Range(t2))>>

\* t1 in t2 or t2 in t1
one_contains_other(t1, t2) == IsSubstr(t1, t2) \/ IsSubstr(t2, t1)

\* The combination without the length penalty
char_score_no_penalty(t1, t2) ==
    RMul(jaccard(t1, t2), IF one_contains_other(t1, t2) THEN <<12, 10>> ELSE <<1, 1>>)

\* jaccard * len_ratio * substring_bonus (lines 140-149)
char_score(t1, t2) ==
    RMul(RMul(jaccard(t1, t2), len_ratio(t1, t2)),
         IF one_contains_other(t1, t2) THEN <<12, 10>> ELSE <<1, 1>>)

\* 2-character chunk Jaccard of long texts (lines 152-159)
word_score(t1, t2, score) ==
    IF (Len(t1) > 10 \/ Len(t2) > 10) /\ get_chunks(t1) # {} /\ get_chunks(t2) # {}
    THEN RMax(score,
              RMul(<<Cardinality(get_chunks(t1) \cap get_chunks(t2)),
                     Cardinality(get_chunks(t1) \cup get_chunks(t2))>>, <<11, 10>>))
    ELSE score

\* Floor for short substrings (lines 162-163)
short_score(t1, t2, score) ==
    IF (Len(t1) <= 4 \/ Len(t2) <= 4) /\ one_contains_other(t1, t2)
    THEN RMax(score, <<7, 10>>)
    ELSE score

\* Lines 125-165, for the two normalized texts
normalized_similarity(t1, t2) ==
    IF t1 = <<>> \/ t2 = <<>> THEN Zero
    ELSE IF t1 = t2 THEN PerfectMatch
    ELSE short_score(t1, t2, word_score(t1, t2, char_score(t1, t2)))

calculate_text_similarity(text1, text2) ==
    IF text1 = <<>> \/ text2 = <<>> THEN Zero
    ELSE normalized_similarity(normalize_match_text(text1), normalize_match_text(text2))

-----------------------------------------------------------------------------
(* Bounded texts for the similarity specification *)

MaxSimLen == 3

RECURSIVE SeqsUpTo(_, _)
SeqsUpTo(S, n) ==
    IF n = 0 THEN {<<>>}
    ELSE LET shorter == SeqsUpTo(S, n - 1)
         IN  shorter \cup {Append(s, x) : s \in {t \in shorter : Len(t) = n - 1}, x \in S}

str_abcab == <<"a", "b", "c", "a", "b">>
str_long1 == <<"a", "b", "c", "a", "b", "c", "a", "b", "c", "a", "b">>
str_long2 == <<"a", "b", "c", "a", "b", "c", "a", "b", "c", "a", "b", "c">>
str_long3 == <<"b", "a", "c", "a", "b", "c", "a", "a", "c", "b", "b", "a">>
str_raw1 == <<"A", " ", "b", ".">>

SimTexts ==
    SeqsUpTo({"a", "b", "A", "."}, MaxSimLen)
        \cup {str_abcab, str_long1, str_long2, str_long3, str_raw1}

-----------------------------------------------------------------------------
(* Inputs: pages, boxes, texts *)

MaxPage == 1
MaxBlocks == 2
MaxCands == 2
MaxTables == 2
MaxPieces == 4
MaxFill == 5

Pages == 0..MaxPage

NoMatch == -1           \* best_match_idx = -1, and Python's None for an index

txt_ab == <<"a", "b">>
txt_abab == <<"a", "b", "a", "b">>
txt_ababa == <<"a", "b", "a", "b", "a">>
txt_toc == <<"a", "b", ".", ".", ".", ".">>
txt_cabcab == <<"c", "a", "b", "c", "a", "b">>
txt_abcabcab == <<"a", "b", "c", "a", "b", "c", "a", "b">>
txt_dot == <<".">>
txt_intro == <<"I", "n", "t", "r", "o">>
txt_hello == <<"H", "e", "l", "l", "o", " ", "w", "o", "r", "l", "d", ".">>

box_top == <<0, 0, 100, 20>>
box_low == <<10, 30, 200, 50>>
box_para == <<0, 30, 200, 50>>

\* bbox[1], the y0 of _sort_key
SortKeyLe(x, y) ==
    \/ x.page_idx < y.page_idx
    \/ x.page_idx = y.page_idx /\ x.bbox[2] <= y.bbox[2]

IsSorted(s) == \A i \in 1..(Len(s) - 1) : SortKeyLe(s[i], s[i + 1])

\* x placed behind the entries of the sorted list whose key is <= its key
insert_sorted(front, x, k) ==
    SubSeq(front, 1, k) \o <<x>> \o SubSeq(front, k + 1, Len(front))

insert_by_key(front, x) ==
    insert_sorted(front, x,
                  Cardinality({i \in 1..Len(front) : SortKeyLe(front[i], x)}))

\* list.sort(key=_sort_key): stable
RECURSIVE SortByKey(_)
SortByKey(s) ==
    IF s = <<>> THEN <<>>
    ELSE insert_by_key(SortByKey(SubSeq(s, 1, Len(s) - 1)), s[Len(s)])

-----------------------------------------------------------------------------
(* _is_toc_entry *)

is_toc_entry(text) ==
    /\ text # <<>>
    /\ \/ \E i \in 1..(Len(text) - 3) : \A j \in i..(i + 3) : text[j] = "."
       \/ /\ Len(text) > 10
          /\ \E i \in 1..(Len(text) - 1) :
                /\ text[i] \in Space
                /\ \E j \in (i + 1)..Len(text) :
                      /\ \A k \in i..(j - 1) : text[k] \in Space
                      /\ \A k \in j..Len(text) : text[k] \in Digit

-----------------------------------------------------------------------------
(* _best_anchor_in_window *)

AnchorThreshold == <<6, 10>>
EarlyExit == <<95, 100>>
TocThreshold == <<9, 10>>

\* toc_matches.sort(key=score, reverse=True)[0]: the first entry of highest score
BestToc(toc) ==
    toc[CHOOSE i \in 1..Len(toc) :
            /\ \A j \in 1..Len(toc) : RLe(toc[j][2], toc[i][2])
            /\ \A j \in 1..(i - 1) : RLt(toc[j][2], toc[i][2])]

\* The early exit of the scan: "if score > 0.95: break"
early_exit(score) == RLt(EarlyExit, score)

\* "Skip if page is backwards (allow same page)"
page_never_backwards(cand_page, min_page_idx) == FALSE
page_is_backwards(cand_page, min_page_idx) ==
    min_page_idx >= 0 /\ cand_page >= 0 /\ cand_page < min_page_idx

\* The score of one candidate; a skipped candidate (lines 80-86) counts as 0,
\* which never passes "score > 0.6"
cand_score(target_norm, cand, min_page_idx) ==
    IF \/ normalize_match_text(cand.text) = <<>>
       \/ page_is_backwards(cand.page_idx, min_page_idx)
    THEN Zero
    ELSE calculate_text_similarity(target_norm, normalize_match_text(cand.text))

\* Lines 94-104 for candidate i; acc is [best_idx, best_score, toc, stop]
scan_update(acc, i, score, is_toc) ==
    IF ~RLt(AnchorThreshold, score) THEN acc
    ELSE IF is_toc THEN [acc EXCEPT !.toc = Append(@, <<i, score>>)]
    ELSE [best_idx |-> IF RLt(acc.best_score, score) THEN i ELSE acc.best_idx,
          best_score |-> IF RLt(acc.best_score, score) THEN score ELSE acc.best_score,
          toc |-> acc.toc,
          stop |-> early_exit(score)]

\* The for loop of lines 75-104
RECURSIVE anchor_scan(_, _, _, _, _, _, _)
anchor_scan(target_norm, cands, is_heading, min_page_idx, i, end_idx, acc) ==
    IF i >= end_idx \/ acc.stop THEN acc
    ELSE anchor_scan(target_norm, cands, is_heading, min_page_idx, i + 1, end_idx,
                     scan_update(acc, i,
                                 cand_score(target_norm, cands[i + 1], min_page_idx),
                                 is_heading /\ is_toc_entry(cands[i + 1].text)))

\* Lines 108-114
anchor_result(acc) ==
    IF acc.best_idx = NoMatch /\ acc.toc # <<>> /\ RLt(TocThreshold, BestToc(acc.toc)[2])
    THEN BestToc(acc.toc)[1]
    ELSE acc.best_idx

best_anchor_normalized(target_norm, cands, start_idx, window_size, is_heading, min_page_idx) ==
    IF target_norm = <<>> THEN NoMatch
    ELSE anchor_result(
            anchor_scan(target_norm, cands, is_heading, min_page_idx, start_idx,
                        Min(Len(cands), start_idx + window_size),
                        [best_idx |-> NoMatch, best_score |-> Zero,
                         toc |-> <<>>, stop |-> FALSE]))

best_anchor_in_window(target_text, cands, start_idx, window_size, is_heading, min_page_idx) ==
    IF target_text = <<>> THEN NoMatch
    ELSE best_anchor_normalized(normalize_match_text(target_text), cands, start_idx,
                                window_size, is_heading, min_page_idx)

-----------------------------------------------------------------------------
(* Table definitions (lines 205-254) *)

MinerUIds == {"1", "2", "m_table_0"}

\* table_id.isdigit() or table_id.startswith("m_table_")
is_mineru_id(table_id) == table_id \in MinerUIds

\* The definition built from an entry of content_tables (lines 220-229)
enriched_def(t) ==
    [id |-> t.id, page_idx |-> t.page_idx, bbox |-> t.bbox,
     table_body |-> t.md, cells |-> t.cells, is_enriched |-> TRUE]

\* The definition built from a raw table element (lines 243-251)
raw_def(t) ==
    [id |-> t.id, page_idx |-> t.page_idx, bbox |-> t.bbox,
     table_body |-> t.table_body, is_enriched |-> FALSE]

enriched_defs(s) == [k \in 1..Len(s) |-> enriched_def(s[k])]

raw_defs(s) == [k \in 1..Len(s) |-> raw_def(s[k])]

\* used_mineru_ids (lines 218, 230-231)
used_mineru_ids(tables_map) ==
    {tables_map[k].id : k \in {j \in 1..Len(tables_map) : is_mineru_id(tables_map[j].id)}}

\* raw_tables_to_add (lines 234-241)
raw_tables_to_add(raw, used_ids) ==
    SortByKey(SelectSeq(raw, LAMBDA t : t.id \notin used_ids))

\* Enriched definitions first, then the raw table elements whose id is not
\* among used_mineru_ids; then sorted by (page_idx, y0).
build_table_defs(tables_map, raw) ==
    SortByKey(enriched_defs(SortByKey(tables_map))
                \o raw_defs(raw_tables_to_add(raw, used_mineru_ids(tables_map))))

\* t.get("cells", [])
CellsOf(t) == IF "cells" \in DOMAIN t THEN t.cells ELSE <<>>

\* len(set(c.get("c") for c in cells)) if cells else 0
distinct_cols(cells) == Cardinality({cells[k].c : k \in 1..Len(cells)})

Abs(x) == IF x < 0 THEN 0 - x ELSE x

-----------------------------------------------------------------------------
(* Table matching (lines 276-333) *)

TableThreshold == <<2, 10>>

\* Page-proximity multiplier of the window search (lines 294-299)
window_score(s0, page_diff) ==
    IF page_diff > 2 THEN RMul(s0, <<7, 10>>)
    ELSE IF page_diff = 0 THEN RMul(s0, <<12, 10>>)
    ELSE s0

\* Penalties of the broadened search (lines 314-318)
broad_score(s0, table_page, floor, page_diff) ==
    RMul(RMul(s0, IF floor > 0 /\ table_page < floor THEN <<1, 10>> ELSE <<1, 1>>),
         IF page_diff > 4 THEN <<1, 2>> ELSE <<1, 1>>)

\* "if score > best_score": best is [idx, score]
keep_best_any(best, i, score, used) ==
    IF RLt(best.score, score) THEN [idx |-> i, score |-> score] ELSE best
keep_best(best, i, score, used) ==
    IF i \notin used /\ RLt(best.score, score) THEN [idx |-> i, score |-> score] ELSE best

\* Window search around table_ptr (lines 286-303)
RECURSIVE window_search(_, _, _, _, _, _, _)
window_search(block, defs, used, current_cand_page, i, search_end, best) ==
    IF i >= search_end THEN best
    ELSE window_search(block, defs, used, current_cand_page, i + 1, search_end,
            keep_best(best, i,
                      window_score(
                          calculate_text_similarity(block, defs[i + 1].table_body),
                          Abs(defs[i + 1].page_idx - current_cand_page)),
                      used))

\* Search of all unused definitions (lines 307-322)
RECURSIVE broad_search(_, _, _, _, _, _, _)
broad_search(block, defs, used, current_cand_page, floor, i, best) ==
    IF i >= Len(defs) THEN best
    ELSE broad_search(block, defs, used, current_cand_page, floor, i + 1,
            keep_best(best, i,
                      broad_score(
                          calculate_text_similarity(block, defs[i + 1].table_body),
                          defs[i + 1].page_idx, floor,
                          Abs(defs[i + 1].page_idx - current_cand_page)),
                      used))

\* "if best_score < 0.2": the broadened search continues from the window's best
broaden(w, block, defs, used, current_cand_page, floor) ==
    IF RLt(w.score, TableThreshold)
    THEN broad_search(block, defs, used, current_cand_page, floor, 0, w)
    ELSE w

\* "Check if it's reasonable": t_page >= last_matched_page_idx
fallback_strictly_after(t_page, floor) == t_page > floor
fallback_reasonable(t_page, floor) == t_page >= floor

FirstOf(S) == IF S = {} THEN NoMatch ELSE CHOOSE i \in S : \A j \in S : i <= j

\* Final fallback: the first unused definition on a reasonable page (lines 325-333)
positional_fallback(defs, used, floor) ==
    FirstOf({i \in 0..(Len(defs) - 1) :
                i \notin used /\ fallback_reasonable(defs[i + 1].page_idx, floor)})

\* best_match_idx and the search that produced it
match_result(w, b, f) ==
    IF b.idx # NoMatch
    THEN [idx |-> b.idx, via |-> IF b = w THEN "window" ELSE "broad"]
    ELSE IF f # NoMatch THEN [idx |-> f, via |-> "fallback"]
    ELSE [idx |-> NoMatch, via |-> "none"]

match_from_window(w, block, defs, used, current_cand_page, floor) ==
    match_result(w, broaden(w, block, defs, used, current_cand_page, floor),
                 positional_fallback(defs, used, floor))

match_table(block, defs, used, t_ptr, current_cand_page, floor) ==
    match_from_window(
        window_search(block, defs, used, current_cand_page,
                      Max(0, t_ptr - 1), Min(Len(defs), t_ptr + 5),
                      [idx |-> NoMatch, score |-> Zero]),
        block, defs, used, current_cand_page, floor)

-----------------------------------------------------------------------------
(* Cross-page continuation (lines 343-388) *)

\* max(c.get("r", 0) for c in combined_cells) if combined_cells else -1
MaxRow(cells) ==
    IF cells = <<>> THEN 0 - 1
    ELSE CHOOSE m \in {cells[k].r : k \in 1..Len(cells)} :
            \A k \in 1..Len(cells) : cells[k].r <= m

\* nt_header_rows: the rows holding a cell whose is_header is true
header_rows(cells) == {cells[k].r : k \in {j \in 1..Len(cells) : cells[j].is_header}}

\* The renumbered row of a continuation cell (lines 372-376)
adjusted_row(r, hdr, row_offset) ==
    r - Cardinality({hr \in hdr : hr < r}) + row_offset

renumbered(kept, hdr, row_offset) ==
    [k \in 1..Len(kept) |->
        [kept[k] EXCEPT !.r = adjusted_row(kept[k].r, hdr, row_offset)]]

\* The cells of a continuation part that are not in a header row
non_header_cells(nt_cells, hdr) == SelectSeq(nt_cells, LAMBDA nc : nc.r \notin hdr)

\* combined_cells after the cells of one continuation part are appended
append_continuation(combined_cells, nt_cells) ==
    combined_cells \o
        renumbered(non_header_cells(nt_cells, header_rows(nt_cells)),
                   header_rows(nt_cells), MaxRow(combined_cells) + 1)

\* "Continuation if: consecutive page AND same number of columns"
is_continuation_same_cols(t, nt) ==
    /\ distinct_cols(CellsOf(t)) = distinct_cols(CellsOf(nt))
    /\ distinct_cols(CellsOf(t)) > 0
is_continuation(t, nt) ==
    /\ nt.page_idx = t.page_idx + 1
    /\ distinct_cols(CellsOf(t)) = distinct_cols(CellsOf(nt))
    /\ distinct_cols(CellsOf(t)) > 0

\* One pass of the while loop; st is [t, next_idx, used, ids, cells, floor, stop]
continuation_step(st, nt) ==
    IF st.next_idx \in st.used THEN [st EXCEPT !.next_idx = @ + 1]
    ELSE IF is_continuation(st.t, nt)
    THEN [t |-> nt,
          next_idx |-> st.next_idx + 1,
          used |-> st.used \cup {st.next_idx},
          ids |-> Append(st.ids, nt.id),
          cells |-> append_continuation(st.cells, CellsOf(nt)),
          floor |-> nt.page_idx,
          stop |-> FALSE]
    ELSE [st EXCEPT !.stop = TRUE]

\* The while loop of lines 348-386
RECURSIVE continuation_loop(_, _)
continuation_loop(defs, st) ==
    IF st.next_idx >= Len(defs) \/ st.stop THEN st
    ELSE continuation_loop(defs, continuation_step(st, defs[st.next_idx + 1]))

\* Lines 336-388 for the matched definition t at best_match_idx
matched_table(defs, used, best_match_idx, t) ==
    continuation_loop(defs,
        [t |-> t,
         next_idx |-> best_match_idx + 1,
         used |-> used \cup {best_match_idx},
         ids |-> <<t.id>>,
         cells |-> CellsOf(t),
         floor |-> t.page_idx,
         stop |-> FALSE])

-----------------------------------------------------------------------------
(* Text blocks: plain text and greedy merge (lines 423-510) *)

LookBack == 30
Window == 350
FallbackLookBack == 50
FallbackWindow == 1000
MergeLookahead == 20
MergeSlack == 5
MergeThreshold == <<7, 10>>

\* re.sub(r"\s+", " ", text).strip(); the markup characters that
\* _strip_markdown_text removes are outside the alphabet of the model
RECURSIVE collapse_spaces(_)
collapse_spaces(s) ==
    IF Len(s) < 2 THEN s
    ELSE (IF s[1] \in Space /\ s[2] \in Space THEN <<>> ELSE <<s[1]>>)
             \o collapse_spaces(Tail(s))

strip_markdown_text(text) == Strip(collapse_spaces(Strip(text)))

\* plain: m.group(2).strip() of a heading, _strip_markdown_text(block) otherwise
plain_text(block) ==
    IF block.text_level > 0 THEN Strip(block.text) ELSE strip_markdown_text(block.text)

HasBBox(x) == "bbox" \in DOMAIN x

union_bbox_keep(b1, b2) == b1
union_bbox(b1, b2) ==
    <<Min(b1[1], b2[1]), Min(b1[2], b2[2]), Max(b1[3], b2[3]), Max(b1[4], b2[4])>>

\* The guard of one absorption (line 485)
absorbs(plain_norm, merged_text, combined) ==
    \/ RLe(calculate_text_similarity(plain_norm, merged_text),
           calculate_text_similarity(plain_norm, combined))
    \/ IsSubstr(combined, plain_norm)
    \/ RLt(MergeThreshold, calculate_text_similarity(plain_norm, combined))

\* One pass of the while loop for candidate cand with normalized text cand_text;
\* m is [next_ptr, text, bbox, count, stop, taken]; bbox = <<>> is
\* merged_bbox = None; taken lists the indices of the absorbed candidates
merge_step(plain_norm, page_idx, m, cand, cand_text) ==
    IF cand.page_idx # page_idx /\ cand.page_idx # page_idx + 1
    THEN [m EXCEPT !.stop = TRUE]
    ELSE IF cand_text = <<>> THEN [m EXCEPT !.next_ptr = @ + 1]
    ELSE IF absorbs(plain_norm, m.text, m.text \o cand_text)
    THEN [next_ptr |-> m.next_ptr + 1,
          text |-> m.text \o cand_text,
          bbox |-> IF HasBBox(cand) /\ m.bbox # <<>> /\ cand.page_idx = page_idx
                   THEN union_bbox(m.bbox, cand.bbox) ELSE m.bbox,
          count |-> m.count + 1,
          stop |-> FALSE,
          taken |-> Append(m.taken, m.next_ptr)]
    ELSE [m EXCEPT !.stop = TRUE]

\* The while loop of lines 462-503
RECURSIVE merge_loop(_, _, _, _, _)
merge_loop(plain_norm, cands, anchor_idx, page_idx, m) ==
    IF ~(m.next_ptr < Len(cands) /\ m.next_ptr < anchor_idx + MergeLookahead) \/ m.stop
    THEN m
    ELSE merge_loop(plain_norm, cands, anchor_idx, page_idx,
                    merge_step(plain_norm, page_idx, m, cands[m.next_ptr + 1],
                               normalize_match_text(cands[m.next_ptr + 1].text)))

\* "if anchor_idx is None": the second, wider search
or_else(first, second) == IF first # NoMatch THEN first ELSE second

\* The two window searches of lines 434-438
find_anchor(plain, cands, cp, is_heading, floor) ==
    or_else(best_anchor_in_window(plain, cands, Max(0, cp - LookBack), Window,
                                  is_heading, floor),
            best_anchor_in_window(plain, cands, Max(0, cp - FallbackLookBack),
                                  FallbackWindow, is_heading, floor))

\* No merge attempt (lines 447-457)
merge_start(anchor_idx, anchor) ==
    [next_ptr |-> anchor_idx + 1,
     text |-> normalize_match_text(anchor.text),
     bbox |-> IF HasBBox(anchor) THEN anchor.bbox ELSE <<>>,
     count |-> 0,
     stop |-> FALSE,
     taken |-> <<>>]

\* "Only try merging if the block is longer than the matched anchor"
merge_guard(plain_norm, merged_text) == Len(plain_norm) > Len(merged_text) + MergeSlack

\* Lines 446-503 for an accepted anchor
greedy_merge(plain_norm, cands, anchor_idx, anchor) ==
    IF merge_guard(plain_norm, normalize_match_text(anchor.text))
    THEN merge_loop(plain_norm, cands, anchor_idx, anchor.page_idx,
                    merge_start(anchor_idx, anchor))
    ELSE merge_start(anchor_idx, anchor)

\* The merge result of a block, matched or not
merge_of(plain, cands, cp, anchor_idx) ==
    IF anchor_idx # NoMatch
    THEN greedy_merge(normalize_match_text(plain), cands, anchor_idx,
                      cands[anchor_idx + 1])
    ELSE [next_ptr |-> cp, text |-> <<>>, bbox |-> <<>>, count |-> 0, stop |-> FALSE,
          taken |-> <<>>]

\* cand_ptr after a block with no anchor: "cand_ptr stays" (lines 511-514)
unmatched_ptr_consumes(cp, n) == IF cp < n THEN cp + 1 ELSE cp
unmatched_ptr(cp, n) == cp

\* cand_ptr after a matched block (line 510)
matched_ptr_anchor(cp, anchor_idx, m) == Max(cp, anchor_idx + 1)
matched_ptr_no_max(cp, anchor_idx, m) ==
    IF m.count > 0 THEN m.next_ptr ELSE anchor_idx + 1
matched_ptr(cp, anchor_idx, m) ==
    Max(cp, IF m.count > 0 THEN m.next_ptr ELSE anchor_idx + 1)

With(cond, rec, ext) == IF cond THEN rec @@ ext ELSE rec

\* "if anchor_idx is not None" (line 443)
has_anchor_always(anchor_idx) == TRUE
has_anchor(anchor_idx) == anchor_idx # NoMatch

\* anchor.get("page_idx")
page_of(cands, anchor_idx) ==
    IF anchor_idx # NoMatch THEN cands[anchor_idx + 1].page_idx ELSE NoMatch

\* The item of a text block (lines 440-453, 505-506)
text_item(plain, text_level, k, cands, anchor_idx, m) ==
    With(has_anchor(anchor_idx) /\ m.bbox # <<>>,
         With(has_anchor(anchor_idx),
              With(text_level > 0,
                   [type |-> "text", text |-> plain, md_index |-> k],
                   [text_level |-> text_level]),
              [page_idx |-> page_of(cands, anchor_idx)]),
         [bbox |-> m.bbox])

\* The item of a table block with the definition t (lines 407-415)
matched_table_item(block, k, t) ==
    [type |-> "table", md_index |-> k, id |-> t.id, page_idx |-> t.page_idx,
     bbox |-> t.bbox,
     table_body |-> IF t.table_body # <<>> THEN t.table_body ELSE block.text]

\* The item of a table block with no definition (line 418)
unmatched_table_item_null_id(block, k) ==
    [type |-> "table", md_index |-> k, text |-> block.text, id |-> "None"]
unmatched_table_item(block, k) ==
    [type |-> "table", md_index |-> k, text |-> block.text]

table_item(block, k, defs, best_match_idx) ==
    IF best_match_idx # NoMatch
    THEN matched_table_item(block, k, defs[best_match_idx + 1])
    ELSE unmatched_table_item(block, k)

\* out.append(item) (lines 420 and 516)
emit_matched_only(items, item) ==
    IF "page_idx" \in DOMAIN item THEN Append(items, item) ELSE items
emit(items, item) == Append(items, item)

\* "Advance cand_ptr if table is far ahead" (lines 397-400)
RECURSIVE skip_to_page(_, _, _)
skip_to_page(cands, cp, table_page) ==
    IF cp < Len(cands) /\ cands[cp + 1].page_idx < table_page
    THEN skip_to_page(cands, cp + 1, table_page)
    ELSE cp

advance_cand_ptr(cands, cp, table_page, current_cand_page) ==
    IF table_page > current_cand_page THEN skip_to_page(cands, cp, table_page) ELSE cp

\* content_tables[primary_id]["cells"] = combined_cells (lines 391-394)
store_combined(tables_map, ids, cells) ==
    IF Len(ids) > 1
    THEN [k \in 1..Len(tables_map) |->
            IF tables_map[k].id = ids[1]
            THEN [tables_map[k] EXCEPT !.cells = cells] ELSE tables_map[k]]
    ELSE tables_map

-----------------------------------------------------------------------------
(* Bounded inputs *)

\* A block: kind from _is_markdown_table_block / _is_html_table_block
\* (lines 266-269), text_level from the heading pattern (line 425; 0 for no
\* heading), text = the block, without the "#" prefix for a heading
BlockPool ==
    {[kind |-> "text", text_level |-> 0, text |-> txt_ababa],
     [kind |-> "text", text_level |-> 0, text |-> txt_abcabcab],
     [kind |-> "text", text_level |-> 1, text |-> txt_ab],
     [kind |-> "table", text_level |-> 0, text |-> txt_abab]}

CandTexts == {txt_abab, txt_ababa, txt_toc, txt_cabcab, txt_dot}

CandPool ==
    {[text |-> t, page_idx |-> p, bbox |-> b] :
        t \in CandTexts, p \in Pages, b \in {box_top, box_low}}

FewCandPool == {[text |-> txt_abab, page_idx |-> p, bbox |-> box_top] : p \in Pages}

\* Cells of a detected table: one column, a header row and a data row
grid_1col ==
    <<[r |-> 0, c |-> 0, is_header |-> TRUE],
      [r |-> 1, c |-> 0, is_header |-> FALSE]>>

\* Two columns; row 0 holds one header cell and one plain cell
grid_2col ==
    <<[r |-> 0, c |-> 0, is_header |-> TRUE],
      [r |-> 0, c |-> 1, is_header |-> FALSE],
      [r |-> 1, c |-> 0, is_header |-> FALSE],
      [r |-> 1, c |-> 1, is_header |-> FALSE]>>

\* What the table-cell detector stores for a region: body and cells, both
\* empty when the detector failed for it (tableExtractor_gmft.py lines 230-248)
DetectorResults ==
    {[md |-> <<>>, cells |-> <<>>],
     [md |-> txt_abab, cells |-> <<>>],
     [md |-> txt_abab, cells |-> grid_1col],
     [md |-> txt_abab, cells |-> grid_2col]}

\* The entry stored for a region when the detector raises for it
\* (tableExtractor_gmft.py lines 238-248)
failed_entry(m_table) ==
    [id |-> m_table.id, page_idx |-> m_table.page_idx, bbox |-> m_table.bbox,
     md |-> <<>>, cells |-> <<>>]

TableIds == {"1", "x"}

\* An entry of content_tables (an ordered dict: a sequence with distinct ids)
EnrichedPool ==
    {[id |-> i, page_idx |-> p, bbox |-> box_top, md |-> d.md, cells |-> d.cells] :
        i \in TableIds, p \in Pages, d \in DetectorResults}

\* A table element of raw_content_list
RawPool ==
    {[id |-> i, page_idx |-> p, bbox |-> box_top, table_body |-> txt_abab] :
        i \in TableIds, p \in Pages}

DistinctIds(s) == \A i, j \in 1..Len(s) : i # j => s[i].id # s[j].id

SeqsOf(S, n) == UNION {[1..k -> S] : k \in 0..n}

\* (content_tables, raw tables) with at most MaxTables tables in all
TableInputs ==
    {tr \in SeqsOf(EnrichedPool, MaxTables) \X SeqsOf(RawPool, MaxTables) :
        /\ Len(tr[1]) + Len(tr[2]) <= MaxTables
        /\ DistinctIds(tr[1])
        /\ DistinctIds(tr[2])}

\* At most one raw table
OneTableInputs ==
    {<<<<>>, r>> : r \in {<<>>} \cup {<<t>> : t \in {x \in RawPool : x.id = "1"}}}

\* Many text candidates with at most one raw table
TextInputs == {c \in SeqsOf(CandPool, MaxCands) : IsSorted(c)} \X OneTableInputs

\* Many tables with at most one text candidate
TablesInputs == SeqsOf(FewCandPool, 1) \X TableInputs

\* The heading "# Intro" followed by the paragraph "Hello world."
IntroBlocks ==
    <<[kind |-> "text", text_level |-> 1, text |-> txt_intro],
      [kind |-> "text", text_level |-> 0, text |-> txt_hello]>>

\* The two page-0 text elements of that document
IntroCands ==
    <<[text |-> txt_intro, page_idx |-> 0, bbox |-> box_top],
      [text |-> txt_hello, page_idx |-> 0, bbox |-> box_para]>>

\* Three detected tables in reading order, on up to three pages, for
\* continuations of continuations (lines 348-386)
ChainPages == {<<0, 0, 1>>, <<0, 1, 1>>, <<0, 1, 2>>, <<0, 0, 0>>, <<0, 1, 3>>}

ChainResults == DetectorResults \cup {[md |-> txt_hello, cells |-> grid_1col]}

chain_entry(id, page, d) ==
    [id |-> id, page_idx |-> page, bbox |-> box_top, md |-> d.md, cells |-> d.cells]

ChainTables ==
    {<<chain_entry("1", pg[1], d1), chain_entry("2", pg[2], d2), chain_entry("x", pg[3], d3)>> :
        pg \in ChainPages, d1 \in ChainResults, d2 \in ChainResults, d3 \in ChainResults}

ChainBlocks == SeqsOf({b \in BlockPool : b.kind = "table"}, MaxBlocks)

\* A paragraph that the layout extractor split into several text elements,
\* with elements of punctuation only among them
txt_cdcd == <<"c", "d", "c", "d">>
txt_ee == <<"e", "e">>
txt_para == txt_abab \o txt_cdcd \o txt_ee

ParaBlocks ==
    {<<[kind |-> "text", text_level |-> 0, text |-> txt_para]>>,
     <<[kind |-> "text", text_level |-> 0, text |-> txt_para],
       [kind |-> "text", text_level |-> 0, text |-> txt_ababa]>>}

PiecePool ==
    {[text |-> txt_abab, page_idx |-> 0, bbox |-> box_top]}
    \cup {[text |-> t, page_idx |-> pg, bbox |-> box_low] :
             t \in {txt_cdcd, txt_dot}, pg \in {0, 1}}
    \cup {[text |-> txt_ee, page_idx |-> pg, bbox |-> box_para] : pg \in {0, 1, 2}}

ParaCands == {c \in SeqsOf(PiecePool, MaxPieces) : IsSorted(c)}

\* Two paragraphs whose elements come in the opposite order, with up to
\* MaxFill punctuation-only elements between them (their normalized text is
\* empty, but they stay in the candidate list: lines 173-190).
RECURSIVE fillers(_)
fillers(k) ==
    IF k = 0 THEN <<>>
    ELSE <<[text |-> txt_dot, page_idx |-> 0, bbox |-> box_low]>> \o fillers(k - 1)

FarBlocks ==
    <<[kind |-> "text", text_level |-> 0, text |-> txt_abab],
      [kind |-> "text", text_level |-> 0, text |-> txt_cdcd]>>

FarCands ==
    {<<[text |-> txt_cdcd, page_idx |-> 0, bbox |-> box_top]>> \o fillers(k)
        \o <<[text |-> txt_abab, page_idx |-> 0, bbox |-> box_para]>> : k \in 0..MaxFill}

StartStep == [kind |-> "start"]

\* No exception
NoError == [status_code |-> 0, detail |-> <<>>]

\* No file in task_result_dir
NoFiles == <<>>

\* parse is not running
ParseIdle ==
    /\ parse_pc = "none"
    /\ attempts = 0
    /\ origin = "none"
    /\ raised = NoError
    /\ md_content = <<>>
    /\ files = NoFiles
    /\ requests = 0
    /\ seen = {}

\* write_json_file is not running
JsonIdle ==
    /\ json_path = <<>>
    /\ json_arg = [t |-> "none"]
    /\ json_file = [t |-> "none"]

Init ==
    /\ \/ /\ blocks \in SeqsOf(BlockPool, MaxBlocks)
          /\ \E inp \in TextInputs \cup TablesInputs :
                /\ candidates = inp[1]
                /\ content_tables = inp[2][1]
                /\ raw_tables = inp[2][2]
                /\ table_defs = build_table_defs(inp[2][1], inp[2][2])
       \/ /\ blocks = IntroBlocks
          /\ candidates = IntroCands
          /\ content_tables = <<>>
          /\ raw_tables = <<>>
          /\ table_defs = <<>>
       \/ /\ blocks \in ParaBlocks
          /\ candidates \in ParaCands
          /\ content_tables = <<>>
          /\ raw_tables = <<>>
          /\ table_defs = <<>>
       \/ /\ blocks = FarBlocks
          /\ candidates \in FarCands
          /\ content_tables = <<>>
          /\ raw_tables = <<>>
          /\ table_defs = <<>>
       \/ /\ blocks \in ChainBlocks
          /\ candidates = <<>>
          /\ content_tables \in ChainTables
          /\ raw_tables = <<>>
          /\ table_defs = build_table_defs(content_tables, <<>>)
    /\ md_index = 0
    /\ cand_ptr = 0
    /\ table_ptr = 0
    /\ used_table_indices = {}
    /\ last_matched_page_idx = 0
    /\ out = <<>>
    /\ new_blocks = <<>>
    /\ run = 1
    /\ first_out = <<>>
    /\ first_tables = <<>>
    /\ step = StartStep
    /\ simA = <<>>
    /\ simB = <<>>
    /\ simScore = Zero
    /\ ParseIdle
    /\ JsonIdle

-----------------------------------------------------------------------------
(* One iteration of the loop over the blocks (lines 265-516) *)

\* current_cand_page (line 281)
current_page(cands, cp) == IF cp < Len(cands) THEN cands[cp + 1].page_idx ELSE 0

\* A table block with a matched definition (lines 335-415, 420)
TableMatched(block, current_cand_page, found) ==
    \E st \in {matched_table(table_defs, used_table_indices, found.idx,
                             table_defs[found.idx + 1])} :
        /\ used_table_indices' = st.used
        /\ last_matched_page_idx' = st.floor
        /\ table_ptr' = st.next_idx
        /\ content_tables' = store_combined(content_tables, st.ids, st.cells)
        /\ cand_ptr' = advance_cand_ptr(candidates, cand_ptr,
                                        table_defs[found.idx + 1].page_idx,
                                        current_cand_page)
        /\ new_blocks' = Append(new_blocks,
                                IF table_defs[found.idx + 1].table_body # <<>>
                                THEN table_defs[found.idx + 1].table_body
                                ELSE block.text)
        /\ step' = [kind |-> "table", cp0 |-> cand_ptr, tp0 |-> table_ptr,
                    floor0 |-> last_matched_page_idx, used0 |-> used_table_indices,
                    match |-> found.idx, via |-> found.via,
                    ids |-> st.ids, cells |-> st.cells]

\* A table block with no definition (lines 416-420)
TableUnmatched(block) ==
    /\ UNCHANGED <<used_table_indices, last_matched_page_idx, table_ptr,
                   content_tables, cand_ptr>>
    /\ new_blocks' = Append(new_blocks, block.text)
    /\ step' = [kind |-> "table", cp0 |-> cand_ptr, tp0 |-> table_ptr,
                floor0 |-> last_matched_page_idx, used0 |-> used_table_indices,
                match |-> NoMatch, via |-> "none", ids |-> <<>>, cells |-> <<>>]

TableBlock ==
    /\ md_index < Len(blocks)
    /\ blocks[md_index + 1].kind = "table"
    /\ \E block \in {blocks[md_index + 1]} :
       \E current_cand_page \in {current_page(candidates, cand_ptr)} :
       \E found \in {match_table(block.text, table_defs, used_table_indices,
                                 table_ptr, current_cand_page,
                                 last_matched_page_idx)} :
          /\ IF found.idx # NoMatch
             THEN TableMatched(block, current_cand_page, found)
             ELSE TableUnmatched(block)
          /\ out' = emit(out, table_item(block, md_index, table_defs, found.idx))
    /\ md_index' = md_index + 1
    /\ UNCHANGED <<blocks, candidates, raw_tables, table_defs, run, first_out,
                   first_tables, simA, simB, simScore, parse_vars, json_vars>>

TextBlock ==
    /\ md_index < Len(blocks)
    /\ blocks[md_index + 1].kind = "text"
    /\ \E block \in {blocks[md_index + 1]} :
       \E plain \in {plain_text(block)} :
       \E anchor_idx \in {find_anchor(plain, candidates, cand_ptr,
                                      block.text_level > 0, last_matched_page_idx)} :
       \E m \in {merge_of(plain, candidates, cand_ptr, anchor_idx)} :
          /\ out' = emit(out, text_item(plain, block.text_level, md_index,
                                        candidates, anchor_idx, m))
          /\ last_matched_page_idx' =
                IF anchor_idx # NoMatch
                THEN candidates[anchor_idx + 1].page_idx ELSE last_matched_page_idx
          /\ cand_ptr' =
                IF anchor_idx # NoMatch
                THEN matched_ptr(cand_ptr, anchor_idx, m)
                ELSE unmatched_ptr(cand_ptr, Len(candidates))
          /\ step' = [kind |-> "text", cp0 |-> cand_ptr, tp0 |-> table_ptr,
                      floor0 |-> last_matched_page_idx, plain |-> plain,
                      is_heading |-> block.text_level > 0,
                      anchor |-> anchor_idx, count |-> m.count,
                      next_ptr |-> m.next_ptr, absorbed |-> m.taken]
    /\ new_blocks' = Append(new_blocks, blocks[md_index + 1].text)
    /\ md_index' = md_index + 1
    /\ UNCHANGED <<blocks, candidates, content_tables, raw_tables, table_defs,
                   table_ptr, used_table_indices, run, first_out, first_tables,
                   simA, simB, simScore, parse_vars, json_vars>>

\* The caller runs the alignment again on the same markdown, element list
\* and table-mapping object (lines 173-262 of the second call)
SecondCall ==
    /\ run = 1
    /\ md_index = Len(blocks)
    /\ run' = 2
    /\ first_out' = out
    /\ first_tables' = content_tables
    /\ table_defs' = build_table_defs(content_tables, raw_tables)
    /\ md_index' = 0
    /\ cand_ptr' = 0
    /\ table_ptr' = 0
    /\ used_table_indices' = {}
    /\ last_matched_page_idx' = 0
    /\ out' = <<>>
    /\ new_blocks' = <<>>
    /\ step' = StartStep
    /\ UNCHANGED <<blocks, candidates, content_tables, raw_tables, simA, simB, simScore,
                   parse_vars, json_vars>>

Next == TableBlock \/ TextBlock \/ SecondCall

Spec == Init /\ [][Next]_vars

-----------------------------------------------------------------------------
(* The similarity scorer on its own: one call of _calculate_text_similarity *)

SimInit ==
    /\ simA \in SimTexts
    /\ simB \in SimTexts
    /\ simScore = Zero
    /\ step = StartStep
    /\ blocks = <<>>
    /\ candidates = <<>>
    /\ content_tables = <<>>
    /\ raw_tables = <<>>
    /\ table_defs = <<>>
    /\ md_index = 0
    /\ cand_ptr = 0
    /\ table_ptr = 0
    /\ used_table_indices = {}
    /\ last_matched_page_idx = 0
    /\ out = <<>>
    /\ new_blocks = <<>>
    /\ run = 1
    /\ first_out = <<>>
    /\ first_tables = <<>>
    /\ ParseIdle
    /\ JsonIdle

\* score = self._calculate_text_similarity(simA, simB)
SimCall ==
    /\ step.kind = "start"
    /\ simScore' = calculate_text_similarity(simA, simB)
    /\ step' = [kind |-> "sim"]
    /\ UNCHANGED <<blocks, candidates, content_tables, raw_tables, table_defs,
                   md_index, cand_ptr, table_ptr, used_table_indices,
                   last_matched_page_idx, out, new_blocks, run, first_out,
                   first_tables, simA, simB, parse_vars, json_vars>>

SimNext == SimCall

SimSpec == SimInit /\ [][SimNext]_vars

-----------------------------------------------------------------------------
(* MinerUParser.parse, one request after another (lines 549-654) *)

MaxRequests == 2

\* str(e): the text of an exception is whatever its raiser put there
ExceptionTexts == {"", "failed"}

\* response.status_code
StatusCodes == {200, 404, 503}

status_text(status_code) ==
    IF status_code = 404 THEN "404" ELSE IF status_code = 503 THEN "503" ELSE "200"

\* HTTPException(status_code=500, detail="MinerU API error: <code> - <body>")
\* (lines 576-584)
api_error(status_code) ==
    [status_code |-> 500, detail |-> <<"MinerU API error: ", status_text(status_code)>>]

\* HTTPException(status_code=500, detail="No results returned from MinerU")
\* (lines 588-589)
no_results_error == [status_code |-> 500, detail |-> <<"No results returned from MinerU">>]

\* except Exception as e:
\*     HTTPException(status_code=500, detail=f"{self.name} Error: {str(e)}")
\* (lines 651-654)
internal_error(text) == [status_code |-> 500, detail |-> <<"MinerU Error: ", text>>]

\* f"m_table_{table_counter}" (line 605)
m_table_id(table_counter) == IF table_counter = 0 THEN "m_table_0" ELSE "m_table_1"

id_ensured(item, table_counter) ==
    With("id" \notin DOMAIN item, item, [id |-> m_table_id(table_counter)])

\* "Ensure tables in raw_content_list have IDs" (lines 600-606)
RECURSIVE ensure_ids(_, _)
ensure_ids(items, table_counter) ==
    IF items = <<>> THEN <<>>
    ELSE <<id_ensured(Head(items), table_counter)>>
            \o ensure_ids(Tail(items),
                          table_counter + (IF "id" \in DOMAIN Head(items) THEN 0 ELSE 1))

\* final_content_tables (lines 612-627): what the table extractor returned,
\* else the content_tables of the response
final_content_tables(gmft_raises, gmft, raw_content_tables) ==
    IF ~gmft_raises /\ gmft # <<>> THEN gmft ELSE raw_content_tables

\* The three files of a finished request (lines 635-641); content.md takes
\* md_content, the rebuilt markdown is discarded (line 633)
md_to_write_rebuilt(md, new_md) == new_md
md_to_write(md, new_md) == md

\* "\n\n".join(new_blocks) (line 518), as the blocks it splits into
new_md_content(md_blocks, rebuilt) ==
    [k \in 1..Len(rebuilt) |-> [md_blocks[k] EXCEPT !.text = rebuilt[k]]]

written_files(md, new_md, md_first_list, tables) ==
    [content_md |-> md_to_write(md, new_md),
     content_list_json |-> md_first_list,
     content_tables_json |-> tables]

\* Table elements of a response: with an id, and without one
raw_table_1 == [id |-> "1", page_idx |-> 0, bbox |-> box_top, table_body |-> txt_abcabcab]
raw_table_anon == [page_idx |-> 1, bbox |-> box_top, table_body |-> txt_abcabcab]

\* What the table extractor stores for raw_table_1, and an entry of the
\* response's own content_tables
gmft_table_1 ==
    [id |-> "1", page_idx |-> 0, bbox |-> box_top, md |-> txt_cabcab, cells |-> grid_1col]
listed_table_x ==
    [id |-> "x", page_idx |-> 0, bbox |-> box_top, md |-> txt_abab, cells |-> <<>>]

\* results[first_filename] of a 200 response, and what the table extractor
\* does with it; "results" is empty in the last one
Results ==
    {[has_results |-> TRUE, md_content |-> b, candidates |-> c, raw_tables |-> r,
      gmft_raises |-> x, gmft |-> g, content_tables |-> t] :
        b \in SeqsOf(BlockPool, MaxBlocks), c \in SeqsOf(FewCandPool, 1),
        r \in {<<>>, <<raw_table_1>>, <<raw_table_anon>>},
        x \in BOOLEAN, g \in {<<>>, <<gmft_table_1>>},
        t \in {<<>>, <<listed_table_x>>}}
    \cup {[has_results |-> FALSE]}

ParseInit ==
    /\ parse_pc = "start"
    /\ attempts = 0
    /\ origin = "none"
    /\ raised = NoError
    /\ md_content = <<>>
    /\ files = NoFiles
    /\ requests = 0
    /\ seen = {}
    /\ JsonIdle
    /\ blocks = <<>>
    /\ candidates = <<>>
    /\ content_tables = <<>>
    /\ raw_tables = <<>>
    /\ table_defs = <<>>
    /\ md_index = 0
    /\ cand_ptr = 0
    /\ table_ptr = 0
    /\ used_table_indices = {}
    /\ last_matched_page_idx = 0
    /\ out = <<>>
    /\ new_blocks = <<>>
    /\ run = 1
    /\ first_out = <<>>
    /\ first_tables = <<>>
    /\ step = StartStep
    /\ simA = <<>>
    /\ simB = <<>>
    /\ simScore = Zero

align_vars == <<blocks, candidates, content_tables, raw_tables, table_defs, md_index,
                cand_ptr, table_ptr, used_table_indices, last_matched_page_idx, out,
                new_blocks, run, first_out, first_tables, step>>

\* parse ends in the exception e
Fails(why, e) ==
    /\ parse_pc' = "failed"
    /\ origin' = why
    /\ raised' = e
    /\ UNCHANGED <<md_content, files, requests, seen, align_vars>>

\* open(pdf_path, "rb") raises (line 562): no request is made
OpenFails ==
    /\ parse_pc = "start"
    /\ \E text \in ExceptionTexts : Fails("pdf_unreadable", internal_error(text))
    /\ UNCHANGED <<attempts, simA, simB, simScore, json_vars>>

\* client.post raises: connection refused, or no answer within the timeout
\* (lines 561-574)
PostFails ==
    /\ parse_pc = "start"
    /\ attempts' = attempts + 1
    /\ \E why \in {"connect_error", "timeout"} : \E text \in ExceptionTexts :
          Fails(why, internal_error(text))
    /\ UNCHANGED <<simA, simB, simScore, json_vars>>

\* client.post returns a status other than 200 (lines 576-584)
PostRejected ==
    /\ parse_pc = "start"
    /\ attempts' = attempts + 1
    /\ \E status_code \in StatusCodes \ {200} :
          Fails("status_error", api_error(status_code))
    /\ UNCHANGED <<simA, simB, simScore, json_vars>>

\* client.post returns 200 without results (lines 586-589)
PostEmpty ==
    /\ parse_pc = "start"
    /\ attempts' = attempts + 1
    /\ \E res \in Results : ~res.has_results /\ Fails("no_results", no_results_error)
    /\ UNCHANGED <<simA, simB, simScore, json_vars>>

\* client.post returns 200 with results: everything up to the start of the
\* loop of _build_md_first_content_list (lines 586-633 and 173-262)
PostReturns ==
    /\ parse_pc = "start"
    /\ attempts' = attempts + 1
    /\ \E res \in Results :
          /\ res.has_results
          /\ md_content' = res.md_content
          /\ blocks' = res.md_content
          /\ candidates' = res.candidates
          /\ raw_tables' = ensure_ids(res.raw_tables, 0)
          /\ content_tables' =
                final_content_tables(res.gmft_raises, res.gmft, res.content_tables)
          /\ table_defs' =
                build_table_defs(
                    final_content_tables(res.gmft_raises, res.gmft, res.content_tables),
                    ensure_ids(res.raw_tables, 0))
    /\ parse_pc' = "build"
    /\ origin' = "ok"
    /\ UNCHANGED <<raised, files, requests, seen, md_index, cand_ptr, table_ptr,
                   used_table_indices, last_matched_page_idx, out, new_blocks, run,
                   first_out, first_tables, step, simA, simB, simScore, json_vars>>

\* "5. Write results" (lines 635-641)
WriteResults ==
    /\ parse_pc = "build"
    /\ md_index = Len(blocks)
    /\ files' = written_files(md_content, new_md_content(blocks, new_blocks), out,
                              content_tables)
    /\ parse_pc' = "done"
    /\ UNCHANGED <<attempts, origin, raised, md_content, requests, seen, align_vars,
                   simA, simB, simScore, json_vars>>

\* The next request: a new parse call with a new task_result_dir
NextRequest ==
    /\ parse_pc \in {"done", "failed"}
    /\ requests + 1 < MaxRequests
    /\ requests' = requests + 1
    /\ seen' = IF parse_pc = "failed"
               THEN seen \cup {[origin |-> origin, raised |-> raised]} ELSE seen
    /\ parse_pc' = "start"
    /\ attempts' = 0
    /\ origin' = "none"
    /\ raised' = NoError
    /\ md_content' = <<>>
    /\ files' = NoFiles
    /\ blocks' = <<>>
    /\ candidates' = <<>>
    /\ content_tables' = <<>>
    /\ raw_tables' = <<>>
    /\ table_defs' = <<>>
    /\ md_index' = 0
    /\ cand_ptr' = 0
    /\ table_ptr' = 0
    /\ used_table_indices' = {}
    /\ last_matched_page_idx' = 0
    /\ out' = <<>>
    /\ new_blocks' = <<>>
    /\ step' = StartStep
    /\ UNCHANGED <<run, first_out, first_tables, simA, simB, simScore, json_vars>>

ParseNext ==
    \/ OpenFails
    \/ PostFails
    \/ PostRejected
    \/ PostEmpty
    \/ PostReturns
    \/ TableBlock
    \/ TextBlock
    \/ WriteResults
    \/ NextRequest

ParseSpec == ParseInit /\ [][ParseNext]_vars

-----------------------------------------------------------------------------
(* write_json_file and normalize_content_list (base.py lines 81-122) *)
(* A JSON value carries its Python type in field t; a str is represented by *)
(* what json.loads makes of it.                                             *)

MaxItems == 3

\* Elements of a content list: dicts with and without a "type", and a
\* non-dict element
ItemPool ==
    {[t |-> "dict", type |-> "text"], [t |-> "dict", type |-> "discarded"],
     [t |-> "dict"], [t |-> "str", parses |-> FALSE]}

json_list(items) == [t |-> "list", items |-> items]

\* {"content_list": value, ...}
json_wrap(value) == [t |-> "dict", content_list |-> value]

\* json.dumps(value)
json_dumps(value) == [t |-> "str", parses |-> TRUE, of |-> value]

\* isinstance(item, dict) and item.get("type") != "discarded"
kept_item(item) ==
    /\ item.t = "dict"
    /\ ~("type" \in DOMAIN item /\ item.type = "discarded")

\* second json.loads, of a str that json.loads returned (lines 85-89)
coerce_parsed(parsed) ==
    IF parsed.t = "str" /\ parsed.parses THEN parsed.of ELSE parsed

\* _coerce_json_value (lines 81-93)
coerce_json_value(data) ==
    IF data.t # "str" THEN data
    ELSE IF ~data.parses THEN data
    ELSE coerce_parsed(data.of)

is_list(value) == value.t = "list"

filtered(value) == json_list(SelectSeq(value.items, kept_item))

normalize_coerced(data) ==
    IF is_list(data) THEN filtered(data)
    ELSE IF data.t = "dict" /\ "content_list" \in DOMAIN data /\ is_list(data.content_list)
    THEN [data EXCEPT !.content_list = filtered(data.content_list)]
    ELSE data

\* normalize_content_list (lines 96-106)
normalize_content_list(data) == normalize_coerced(coerce_json_value(data))

\* os.path.basename(path)
basename(path) == path[Len(path)]

normalize_never(path, data) == data
normalize_for(path, data) ==
    IF basename(path) = "content_list.json" THEN normalize_content_list(data) ELSE data

\* write_json_file (lines 115-122): what json.dump leaves in the file
write_json_file(path, data) == json_dumps(normalize_for(path, coerce_json_value(data)))

\* json.load of the file
stored_data(file) == file.of

JsonPaths == {<<"result", "content_list.json">>, <<"result", "content_tables.json">>}

\* The data handed to write_json_file: a list, a dict wrapping it, a dict
\* without the key, a dict whose content_list is itself a str, each also as
\* a JSON str and as the JSON str of a JSON str
JsonValues ==
    UNION {{json_list(s), json_wrap(json_list(s)), json_wrap(json_dumps(json_list(s))),
            [t |-> "dict"]} : s \in SeqsOf(ItemPool, MaxItems)}

JsonArgs ==
    JsonValues \cup {json_dumps(v) : v \in JsonValues}
               \cup {json_dumps(json_dumps(v)) : v \in JsonValues}

NoJson == [t |-> "none"]

JsonInit ==
    /\ json_path \in JsonPaths
    /\ json_arg \in JsonArgs
    /\ json_file = NoJson
    /\ ParseIdle
    /\ blocks = <<>>
    /\ candidates = <<>>
    /\ content_tables = <<>>
    /\ raw_tables = <<>>
    /\ table_defs = <<>>
    /\ md_index = 0
    /\ cand_ptr = 0
    /\ table_ptr = 0
    /\ used_table_indices = {}
    /\ last_matched_page_idx = 0
    /\ out = <<>>
    /\ new_blocks = <<>>
    /\ run = 1
    /\ first_out = <<>>
    /\ first_tables = <<>>
    /\ step = StartStep
    /\ simA = <<>>
    /\ simB = <<>>
    /\ simScore = Zero

\* write_json_file(json_path, json_arg)
WriteJson ==
    /\ json_file = NoJson
    /\ json_file' = write_json_file(json_path, json_arg)
    /\ UNCHANGED <<json_path, json_arg, parse_vars, align_vars, simA, simB, simScore>>

JsonNext == WriteJson

JsonSpec == JsonInit /\ [][JsonNext]_vars

-----------------------------------------------------------------------------
(* Properties *)

\* The item appended by the last processed block
last_item == out[Len(out)]

NoPosition(item) == "page_idx" \notin DOMAIN item /\ "bbox" \notin DOMAIN item

\* C1: the content list holds exactly one item per processed block, in block
\* order: after k blocks it has k items, item i carries md_index i (counted
\* from 0) and the type of block i, and nothing is dropped or duplicated
\* whichever branch a block takes.
C1_Coverage ==
    /\ Len(out) = md_index
    /\ md_index <= Len(blocks)
    /\ Len(new_blocks) = md_index
    /\ \A i \in 1..Len(out) :
          /\ out[i].md_index = i - 1
          /\ out[i].type = blocks[i].kind

\* A finished run over two blocks: a matched table and an unmatched text block
C1_Witness ==
    /\ run = 1
    /\ Len(blocks) = 2
    /\ md_index = Len(blocks)
    /\ out[1].type = "table" /\ "id" \in DOMAIN out[1]
    /\ out[2].type = "text" /\ NoPosition(out[2])

\* C2: a second run of the alignment on the same markdown, element list and
\* table-mapping object ends with the content list and the table mapping of
\* the first run.
C2_SecondRunIdentical ==
    (run = 2 /\ md_index = Len(blocks)) =>
        (out = first_out /\ content_tables = first_tables)

\* The candidates whose normalized text equals the normalized text of plain
exact_candidates(plain) ==
    {k \in 0..(Len(candidates) - 1) :
        normalize_match_text(candidates[k + 1].text) = normalize_match_text(plain)}

\* C3: when the normalized text of a text block equals the normalized text of
\* exactly one candidate, that candidate is the anchor of the block and the
\* item carries its page. Stated for the blocks that are no headings and
\* the candidates that are not before the page floor.
C3_ExactMatchSelected ==
    (/\ step.kind = "text"
     /\ ~step.is_heading
     /\ Cardinality(exact_candidates(step.plain)) = 1
     /\ \A k \in exact_candidates(step.plain) :
            candidates[k + 1].page_idx >= step.floor0) =>
        /\ step.anchor \in exact_candidates(step.plain)
        /\ "page_idx" \in DOMAIN last_item
        /\ last_item.page_idx = candidates[step.anchor + 1].page_idx

\* C4: no processed block lowers last_matched_page_idx.
C4_FloorNeverDecreases ==
    step.kind \in {"text", "table"} => step.floor0 <= last_matched_page_idx

\* rows(X): the number of rows of a cell list
rows(cells) == Cardinality({cells[k].r : k \in 1..Len(cells)})

\* headerRows(X): the rows all of whose cells carry is_header
all_header_rows(cells) ==
    {r \in {cells[k].r : k \in 1..Len(cells)} :
        \A k \in 1..Len(cells) : cells[k].r = r => cells[k].is_header}

NoDuplicateCell(cells) ==
    \A i, j \in 1..Len(cells) :
        (cells[i].r = cells[j].r /\ cells[i].c = cells[j].c) => i = j

\* The definitions merged into the matched one as continuations
merged_indices == (used_table_indices \ step.used0) \ {step.match}

\* C5: when a matched definition A is merged with one continuation B, the
\* largest row of the combined cells is rows(A) + rows(B) - headerRows(B) - 1
\* and no two cells share (row, col).
C5_ContinuationRows ==
    (step.kind = "table" /\ Len(step.ids) = 2) =>
        \A b \in merged_indices :
            /\ MaxRow(step.cells) =
                  rows(CellsOf(table_defs[step.match + 1]))
                    + rows(CellsOf(table_defs[b + 1]))
                    - Cardinality(all_header_rows(CellsOf(table_defs[b + 1]))) - 1
            /\ NoDuplicateCell(step.cells)

\* C6: the similarity of (a, b) is the similarity of (b, a).
C6_Symmetric ==
    step.kind = "sim" => simScore = calculate_text_similarity(simB, simA)

\* A long text scored against a different short text that it contains
C6_Witness ==
    /\ step.kind = "sim"
    /\ simA # simB
    /\ Len(normalize_match_text(simA)) > 10
    /\ Len(normalize_match_text(simB)) \in 1..4
    /\ IsSubstr(normalize_match_text(simB), normalize_match_text(simA))
    /\ RLt(Zero, simScore)

\* C7: a text block with no accepted candidate is emitted as a text item with
\* its md_index and its text and without page_idx and bbox, and the loop goes
\* on with the next block.
C7_UnmatchedTextEmitted ==
    (step.kind = "text" /\ step.anchor = NoMatch) =>
        /\ Len(out) = md_index
        /\ last_item.type = "text"
        /\ last_item.md_index = md_index - 1
        /\ last_item.text = step.plain
        /\ NoPosition(last_item)
        /\ md_index < Len(blocks) => blocks[md_index + 1].kind \in {"text", "table"}

\* An unmatched text block, with candidates present, followed by another block
C7_Witness ==
    /\ Len(out) = 2
    /\ candidates # <<>>
    /\ out[1].type = "text" /\ NoPosition(out[1])
    /\ out[2].md_index = 1

\* C8, as stated: a text block with no accepted candidate takes the candidate
\* at the pointer, is emitted with its page and bbox, and moves the pointer
\* by one.
C8_FallbackConsumes ==
    (step.kind = "text" /\ step.anchor = NoMatch /\ step.cp0 < Len(candidates)) =>
        /\ cand_ptr = step.cp0 + 1
        /\ "page_idx" \in DOMAIN last_item
        /\ last_item.page_idx = candidates[step.cp0 + 1].page_idx
        /\ "bbox" \in DOMAIN last_item
        /\ last_item.bbox = candidates[step.cp0 + 1].bbox

\* C8, amended: a text block with no accepted candidate consumes nothing: the
\* candidate pointer and the page floor stay where they were and the item has
\* no page and no bbox, also when a candidate exists at the pointer.
C8_UnmatchedKeepsPointer ==
    (step.kind = "text" /\ step.anchor = NoMatch) =>
        /\ cand_ptr = step.cp0
        /\ last_matched_page_idx = step.floor0
        /\ NoPosition(last_item)

\* An unmatched text block while a candidate waits at the pointer
C8_Witness ==
    /\ step.kind = "text"
    /\ step.anchor = NoMatch
    /\ step.cp0 < Len(candidates)
    /\ cand_ptr = step.cp0

\* The unused definitions before a table block, and those the positional
\* fallback may take
unused_before == {i \in 0..(Len(table_defs) - 1) : i \notin step.used0}

unused_from_floor ==
    {i \in unused_before : table_defs[i + 1].page_idx >= step.floor0}

\* C9, as stated: a table block processed while some definition is unused
\* gets a definition.
C9_AlwaysAssigned ==
    (step.kind = "table" /\ unused_before # {}) =>
        (step.match # NoMatch /\ "id" \in DOMAIN last_item)

\* C9, amended: a table block processed while some unused definition lies on
\* a page >= last_matched_page_idx gets a definition; a table block is left
\* without one only when every unused definition lies before that page.
C9_AssignedFromFloor ==
    (step.kind = "table" /\ unused_from_floor # {}) =>
        (step.match # NoMatch /\ "id" \in DOMAIN last_item)

\* The positional fallback gives a definition that matched nothing
C9_Witness ==
    /\ step.kind = "table"
    /\ step.via = "fallback"
    /\ "id" \in DOMAIN last_item
    /\ Cardinality(unused_before) = 2

\* C10: with no table definitions a table block yields a table item with its
\* md_index and no id, page_idx or bbox, and leaves cand_ptr, table_ptr and
\* last_matched_page_idx unchanged.
C10_NoDefinitions ==
    (step.kind = "table" /\ table_defs = <<>>) =>
        /\ last_item.type = "table"
        /\ last_item.md_index = md_index - 1
        /\ "id" \notin DOMAIN last_item
        /\ NoPosition(last_item)
        /\ cand_ptr = step.cp0
        /\ table_ptr = step.tp0
        /\ last_matched_page_idx = step.floor0

\* A table block without definitions after a text block matched on page 1
C10_Witness ==
    /\ step.kind = "table"
    /\ table_defs = <<>>
    /\ step.cp0 = 1
    /\ step.floor0 = 1

\* Blocks and candidates pair up one to one: text blocks only, as many
\* candidates as blocks, all on one page, none a table-of-contents line, and
\* the normalized text of block i equal to that of candidate i
paired_inputs ==
    /\ Len(blocks) > 0
    /\ Len(candidates) = Len(blocks)
    /\ \A i \in 1..Len(blocks) :
          /\ blocks[i].kind = "text"
          /\ normalize_match_text(plain_text(blocks[i]))
                = normalize_match_text(candidates[i].text)
          /\ normalize_match_text(candidates[i].text) # <<>>
          /\ candidates[i].page_idx = candidates[1].page_idx
          /\ ~is_toc_entry(candidates[i].text)

\* C11: when blocks and candidates are in the same order on one page and the
\* normalized text of every block equals that of its own candidate, item i
\* carries the page and the bbox of candidate i and the heading level of
\* block i; in particular "# Intro" / "Hello world." gives a level-1 item
\* with bbox [0,0,100,20] and an item with bbox [0,30,200,50], both on page 0.
C11_OwnCandidate ==
    (run = 1 /\ md_index = Len(blocks) /\ paired_inputs) =>
        \A i \in 1..Len(blocks) :
            /\ "page_idx" \in DOMAIN out[i]
            /\ out[i].page_idx = candidates[i].page_idx
            /\ "bbox" \in DOMAIN out[i]
            /\ out[i].bbox = candidates[i].bbox
            /\ ("text_level" \in DOMAIN out[i]) = (blocks[i].text_level > 0)

\* The raw table elements whose region the detector failed for
failed_regions ==
    {i \in 1..Len(raw_tables) : failed_entry(raw_tables[i]) \in Range(content_tables)}

\* C12: when the detector failed for a table region, the definition used for
\* that region's id carries the body of the raw table element, not an empty
\* body, whenever a table block is matched against the definitions.
C12_FailedRegionRawBody ==
    step.kind = "table" =>
        \A i \in failed_regions :
            /\ \E k \in 1..Len(table_defs) : table_defs[k].id = raw_tables[i].id
            /\ \A k \in 1..Len(table_defs) :
                  table_defs[k].id = raw_tables[i].id =>
                      table_defs[k].table_body = raw_tables[i].table_body

\* Requests whose call to the layout-extraction service failed
Upstream == {"connect_error", "timeout", "status_error"}

\* C13: when the call to the layout-extraction service fails (connection
\* error, timeout or non-200 status), parse has made exactly one request
\* attempt, has written none of the three files, and ends in an error that no
\* failure of another origin ends in.
C13_UpstreamFailureFatal ==
    (parse_pc = "failed" /\ origin \in Upstream) =>
        /\ attempts = 1
        /\ DOMAIN files = {}
        /\ \A e \in seen : e.origin \notin Upstream => e.raised # raised

\* C15: the text written to content.md is the markdown received from the
\* layout extractor, also when the rebuilt markdown differs from it because
\* a table block was replaced by the body of its definition.
C15_OriginalMarkdownKept ==
    parse_pc = "done" => files.content_md = md_content

C15_Witness ==
    /\ parse_pc = "done"
    /\ files.content_md = md_content
    /\ new_md_content(blocks, new_blocks) # md_content
    /\ \E k \in 1..Len(out) :
          /\ out[k].type = "table"
          /\ "id" \in DOMAIN out[k]
          /\ out[k].table_body # blocks[k].text

\* The content list inside a value: the value itself, or what a dict wraps
\* under the key content_list
list_of(value) == IF is_list(value) THEN value ELSE value.content_list

\* The data is a list or a dict wrapping a list under content_list
holds_list(value) ==
    \/ is_list(value)
    \/ value.t = "dict" /\ "content_list" \in DOMAIN value /\ is_list(value.content_list)

\* C14: after write_json_file to a path named content_list.json with data
\* that is a list or a dict wrapping the list under content_list, possibly
\* given as a JSON string, the stored list holds no item of type
\* "discarded" and holds every non-discarded dict item of the input in the
\* original order.
C14_DiscardedNeverStored ==
    (/\ json_file # NoJson
     /\ basename(json_path) = "content_list.json"
     /\ holds_list(coerce_json_value(json_arg))) =>
        /\ holds_list(stored_data(json_file))
        /\ is_list(stored_data(json_file)) = is_list(coerce_json_value(json_arg))
        /\ \A k \in 1..Len(list_of(stored_data(json_file)).items) :
              ~(/\ "type" \in DOMAIN list_of(stored_data(json_file)).items[k]
                /\ list_of(stored_data(json_file)).items[k].type = "discarded")
        /\ SelectSeq(list_of(stored_data(json_file)).items, kept_item)
             = SelectSeq(list_of(coerce_json_value(json_arg)).items, kept_item)

C14_Witness ==
    /\ json_file # NoJson
    /\ basename(json_path) = "content_list.json"
    /\ json_arg.t = "str"
    /\ holds_list(coerce_json_value(json_arg))
    /\ ~is_list(coerce_json_value(json_arg))
    /\ \E k \in 1..Len(list_of(coerce_json_value(json_arg)).items) :
          list_of(coerce_json_value(json_arg)).items[k] = [t |-> "dict", type |-> "discarded"]
    /\ Len(list_of(stored_data(json_file)).items) = 2

\* C16: cand_ptr starts at 0 and every text or table block leaves it at least
\* where it was and at most at the number of candidates, also when the
\* anchor lies behind the pointer and when a table match moves the pointer
\* to the table's page.
C16_CandPtrMonotonic ==
    /\ step.kind = "start" => cand_ptr = 0
    /\ step.kind \in {"text", "table"} =>
          /\ step.cp0 <= cand_ptr
          /\ cand_ptr <= Len(candidates)

\* A text block anchored behind the pointer
C16_Witness ==
    /\ run = 1
    /\ step.kind = "text"
    /\ step.anchor # NoMatch
    /\ step.anchor + 1 < step.cp0
    /\ cand_ptr = step.cp0

\* C17: the candidate selected as the anchor of a text block has a page index
\* that is not less than the last-matched-page floor in force when the block
\* is processed, and so has the item emitted for the block.
C17_NoBackwardPage ==
    (step.kind = "text" /\ step.anchor # NoMatch) =>
        /\ candidates[step.anchor + 1].page_idx >= step.floor0
        /\ last_item.page_idx >= step.floor0

\* A block anchored while a candidate with the same normalized text lies on
\* a page below the floor
C17_Witness ==
    /\ run = 1
    /\ step.kind = "text"
    /\ step.anchor # NoMatch
    /\ step.floor0 > 0
    /\ \E i \in 1..Len(candidates) :
          /\ candidates[i].page_idx < step.floor0
          /\ normalize_match_text(candidates[i].text) = normalize_match_text(step.plain)

\* Table items of the content list that carry a definition
matched_items == {k \in 1..Len(out) : out[k].type = "table" /\ "id" \in DOMAIN out[k]}

\* C18: a table block is assigned a definition that no earlier block used,
\* as primary or as continuation; the definitions it consumes (primary and
\* continuations) are all new, so that the used definitions are at least as
\* many as the table items that carry one.
C18_DefinitionUsedOnce ==
    /\ (step.kind = "table" /\ step.match # NoMatch) =>
          /\ step.match \notin step.used0
          /\ step.match \in used_table_indices
          /\ step.used0 \subseteq used_table_indices
          /\ Cardinality(used_table_indices) = Cardinality(step.used0) + Len(step.ids)
    /\ (step.kind = "table" /\ step.match = NoMatch) => used_table_indices = step.used0
    /\ Cardinality(used_table_indices) >= Cardinality(matched_items)

\* A second table block is matched although a used definition carries
\* exactly its text
C18_Witness ==
    /\ run = 1
    /\ step.kind = "table"
    /\ step.match # NoMatch
    /\ \E i \in step.used0 : table_defs[i + 1].table_body = blocks[md_index].text

\* Ids of the entries of content_tables
enriched_ids == {content_tables[k].id : k \in 1..Len(content_tables)}

\* Positions of the definitions of table_defs with the given id and provenance
defs_of(id, enriched) ==
    {j \in 1..Len(table_defs) : table_defs[j].id = id /\ table_defs[j].is_enriched = enriched}

\* C19: the table definitions used for matching a table block hold every
\* enriched definition exactly once and a raw table region if and only if
\* its id is not among the enriched ids, so that no id occurs twice,
\* whatever the form of the id.
C19_MergeById ==
    step.kind = "table" =>
        /\ \A id \in enriched_ids : Cardinality(defs_of(id, TRUE)) = 1
        /\ \A k \in 1..Len(raw_tables) :
              (defs_of(raw_tables[k].id, FALSE) # {}) = (raw_tables[k].id \notin enriched_ids)
        /\ DistinctIds(table_defs)

\* The cells of a continuation part that the combined table takes when the
\* header rows are the rows all of whose cells carry is_header
continuation_cells(nt_cells, row_offset) ==
    renumbered(non_header_cells(nt_cells, all_header_rows(nt_cells)),
               all_header_rows(nt_cells), row_offset)

\* C20: when one continuation definition is merged, a row of it is dropped
\* exactly when all of its cells have is_header true, and every cell of
\* another row r is appended with row r - (number of header rows below r)
\* + rowOffset, rowOffset being one more than the largest row already in
\* the combined cells.
C20_HeaderRowsDropped ==
    (step.kind = "table" /\ Len(step.ids) = 2) =>
        \A b \in merged_indices :
            step.cells =
                CellsOf(table_defs[step.match + 1])
                  \o continuation_cells(CellsOf(table_defs[b + 1]),
                                        MaxRow(CellsOf(table_defs[step.match + 1])) + 1)

\* The definitions a table step consumed, in ascending order of position:
\* the matched one, then the merged ones
RECURSIVE ascending(_)
ascending(S) ==
    IF S = {} THEN <<>>
    ELSE <<FirstOf(S)>> \o ascending(S \ {FirstOf(S)})

chain == <<step.match>> \o ascending(merged_indices)

\* The first definition behind position i that no earlier block used
next_unused(i) == FirstOf({j \in (i + 1)..(Len(table_defs) - 1) : j \notin step.used0})

\* nt is on the page after t and both have the same positive number of
\* distinct columns
continues(t, nt) ==
    /\ nt.page_idx = t.page_idx + 1
    /\ Cardinality({CellsOf(nt)[k].c : k \in 1..Len(CellsOf(nt))})
         = Cardinality({CellsOf(t)[k].c : k \in 1..Len(CellsOf(t))})
    /\ Cardinality({CellsOf(t)[k].c : k \in 1..Len(CellsOf(t))}) > 0

\* C21: every definition merged as a continuation is the next unused
\* definition after the part before it, lies on the page after that part and
\* has the same positive number of distinct columns; merging stops only at
\* the end of the list or at a next unused definition that fails this.
C21_ContinuationCondition ==
    (step.kind = "table" /\ step.match # NoMatch) =>
        /\ merged_indices \subseteq (step.match + 1)..(Len(table_defs) - 1)
        /\ Len(step.ids) = Len(chain)
        /\ \A k \in 2..Len(chain) :
              /\ chain[k] = next_unused(chain[k - 1])
              /\ continues(table_defs[chain[k - 1] + 1], table_defs[chain[k] + 1])
              /\ step.ids[k] = table_defs[chain[k] + 1].id
        /\ next_unused(chain[Len(chain)]) # NoMatch =>
              ~continues(table_defs[chain[Len(chain)] + 1],
                         table_defs[next_unused(chain[Len(chain)]) + 1])

\* Two continuations merged one after the other
C21_Witness ==
    /\ run = 1
    /\ step.kind = "table"
    /\ Len(step.ids) = 3

\* The matched text after the first k absorptions of the last text step
RECURSIVE merged_text(_)
merged_text(k) ==
    IF k = 0 THEN normalize_match_text(candidates[step.anchor + 1].text)
    ELSE merged_text(k - 1) \o normalize_match_text(candidates[step.absorbed[k] + 1].text)

\* C22: every candidate absorbed into a matched text block is absorbed while
\* the block's normalized text is longer than the matched text so far by
\* more than 5 characters, and lies on the anchor's page or the page after.
C22_MergeGuardEachTime ==
    (step.kind = "text" /\ step.anchor # NoMatch) =>
        \A k \in 1..Len(step.absorbed) :
            /\ Len(normalize_match_text(step.plain)) > Len(merged_text(k - 1)) + 5
            /\ candidates[step.absorbed[k] + 1].page_idx
                  \in {candidates[step.anchor + 1].page_idx,
                       candidates[step.anchor + 1].page_idx + 1}

\* The anchor of the last text step and the absorbed candidates on its page
same_page_parts ==
    {step.anchor}
    \cup {step.absorbed[k] : k \in {j \in 1..Len(step.absorbed) :
              candidates[step.absorbed[j] + 1].page_idx
                = candidates[step.anchor + 1].page_idx}}

Least(S) == CHOOSE x \in S : \A y \in S : x <= y

Greatest(S) == CHOOSE x \in S : \A y \in S : x >= y

\* C23: the item of a matched text block carries the anchor's page and the
\* coordinate-wise union of the bboxes of the anchor and of the absorbed
\* candidates on the anchor's page; candidates absorbed from the following
\* page change neither, and the candidate pointer is behind all of them.
C23_MergedBBox ==
    (step.kind = "text" /\ step.anchor # NoMatch) =>
        /\ last_item.page_idx = candidates[step.anchor + 1].page_idx
        /\ last_item.bbox =
              <<Least({candidates[i + 1].bbox[1] : i \in same_page_parts}),
                Least({candidates[i + 1].bbox[2] : i \in same_page_parts}),
                Greatest({candidates[i + 1].bbox[3] : i \in same_page_parts}),
                Greatest({candidates[i + 1].bbox[4] : i \in same_page_parts})>>
        /\ \A k \in 1..Len(step.absorbed) : step.absorbed[k] < cand_ptr

\* One candidate absorbed on the anchor's page, which widens the bbox, and
\* one from the following page
C23_Witness ==
    /\ run = 1
    /\ step.kind = "text"
    /\ step.anchor # NoMatch
    /\ Len(step.absorbed) = 2
    /\ Cardinality(same_page_parts) = 2
    /\ last_item.bbox # candidates[step.anchor + 1].bbox

\* The position the merge loop reaches from i by stepping over candidates
\* with an empty normalized text that pass its page test (lines 462-474)
RECURSIVE past_empties(_)
past_empties(i) ==
    IF /\ i < Len(candidates)
       /\ i < step.anchor + MergeLookahead
       /\ candidates[i + 1].page_idx
            \in {candidates[step.anchor + 1].page_idx,
                 candidates[step.anchor + 1].page_idx + 1}
       /\ normalize_match_text(candidates[i + 1].text) = <<>>
    THEN past_empties(i + 1)
    ELSE i

\* The index after the last candidate a matched text block consumed
after_last_consumed ==
    IF step.absorbed = <<>> THEN step.anchor + 1
    ELSE step.absorbed[Len(step.absorbed)] + 1

\* C24 as stated: after a text block is accepted, cand_ptr is the index of
\* the last candidate the block consumed plus one.
C24_PointerAfterLast ==
    (step.kind = "text" /\ step.anchor # NoMatch) => cand_ptr = after_last_consumed

\* C24: after a text block is accepted, cand_ptr is the larger of its value
\* before the block and the end of the block's span: the anchor's index + 1
\* when nothing was absorbed, else the index after the last absorbed
\* candidate and after the empty candidates the merge loop stepped over
\* behind it.
C24_PointerAfterSpan ==
    (step.kind = "text" /\ step.anchor # NoMatch) =>
        cand_ptr = Max(step.cp0,
                       IF step.absorbed = <<>> THEN step.anchor + 1
                       ELSE past_empties(after_last_consumed))

\* The pointer ends behind an empty candidate that follows the last absorbed
\* one
C24_Witness ==
    /\ run = 1
    /\ step.kind = "text"
    /\ step.anchor # NoMatch
    /\ step.absorbed # <<>>
    /\ step.cp0 <= step.anchor
    /\ cand_ptr > after_last_consumed

\* C25: no table block lowers table_ptr, whether it is matched in the
\* window, by the broadened search or by the positional fallback, or not
\* matched at all.
C25_TablePtrMonotonic ==
    step.kind = "table" => step.tp0 <= table_ptr

\* C26: the candidate chosen as the anchor of a text block lies in
\* [max(0, cp-5), min(N, cp+120)), cp being the candidate pointer when the
\* block is processed and N the number of candidates.
C26_AnchorInWindow ==
    (step.kind = "text" /\ step.anchor # NoMatch) =>
        /\ Max(0, step.cp0 - 5) <= step.anchor
        /\ step.anchor < Min(Len(candidates), step.cp0 + 120)

\* C27: the similarity is 0 when either normalized text is empty, exactly
\* 1.2 when the two normalized texts are equal and non-empty, and otherwise
\* at least 0 and strictly below 1.2.
C27_SimilarityRange ==
    step.kind = "sim" =>
        LET t1 == normalize_match_text(simA)
            t2 == normalize_match_text(simB)
        IN  /\ (t1 = <<>> \/ t2 = <<>>) => simScore[1] = 0
            /\ (t1 # <<>> /\ t1 = t2) =>
                   /\ RLe(simScore, PerfectMatch)
                   /\ RLe(PerfectMatch, simScore)
            /\ (t1 # <<>> /\ t2 # <<>> /\ t1 # t2) =>
                   /\ RLe(Zero, simScore)
                   /\ RLt(simScore, PerfectMatch)

\* Two different normalized texts that score above 1.0: one contains the
\* other and is one character longer
C27_Witness ==
    /\ step.kind = "sim"
    /\ normalize_match_text(simA) # normalize_match_text(simB)
    /\ normalize_match_text(simA) # <<>>
    /\ normalize_match_text(simB) # <<>>
    /\ RLt(<<1, 1>>, simScore)
    /\ RLt(simScore, PerfectMatch)

====
